---- MODULE Spec2Model ----
(***************************************************************************)
(* Tool-approval workflow of the Slack bot: the Slack handlers of          *)
(* slack_client.py, the ClaudeClient adapter of claude_client.py and the   *)
(* execute_tool / get_available_tools entry points of mcp_manager.py.      *)
(*                                                                         *)
(* Strings are sequences of tokens; uuid4() is a counter that never        *)
(* repeats; the AI API and the MCP client are nondeterministic: each call  *)
(* either returns one of a few replies or raises.                          *)
(***************************************************************************)
EXTENDS Integers, Sequences, FiniteSets, TLC

VARIABLES
    conversation_store,  \* slack_client.conversation_store: conversation_id -> conversation
    uuid,                \* number of uuid4() values minted so far
    execLog,             \* every MCPManager.execute_tool call so far: [rid, handler]
    event,               \* the inbound event handled last
    out,                 \* what the handler of that event did
    claude,              \* ClaudeClient.conversations of the instance that handler made
    issued,              \* the {conversation_id, request_id} pairs approval messages carry
    config,              \* MCPManager.config: what json.load gave for the config file
    server_processes,    \* MCPManager.server_processes: server name -> pid
    procs,               \* the operating system's process table: pid -> process
    mgr,                 \* the supervisor call or process exit seen last, and how it ended
    threads              \* supervisor operations in progress: thread -> frame

botVars == <<conversation_store, uuid, execLog, event, out, claude, issued>>

supVars == <<config, server_processes, procs, mgr, threads>>

vars == <<conversation_store, uuid, execLog, event, out, claude, issued,
          config, server_processes, procs, mgr, threads>>

\* ------------------------------------------------------------------ bounds
MaxUuid == 4         \* uuid4() values the model mints or receives in payloads
MaxExec == 2         \* execute_tool calls recorded

\* ------------------------------------------------------------------ values
Ids == 1..MaxUuid

EmptyMap == [x \in {} |-> 0]

Put(f, k, v) == [x \in (DOMAIN f) \cup {k} |-> IF x = k THEN v ELSE f[x]]

Contains(s, tok) == \E i \in DOMAIN s : s[i] = tok

\* str.replace(tok, ""): every occurrence goes
Replace(s, tok) == SelectSeq(s, LAMBDA t : t # tok)

\* A value a Python variable named `conversation` may hold: None, a
\* conversation id (str) or a list of turns.
NoneRef == [kind |-> "none", id |-> 0, turns |-> <<>>]
IdRef(n) == [kind |-> "id", id |-> n, turns |-> <<>>]
ListRef(ts) == [kind |-> "list", id |-> 0, turns |-> ts]

\* Python truthiness of such a value
Truthy(ref) ==
    CASE ref.kind = "none" -> FALSE
      [] ref.kind = "id" -> TRUE
      [] OTHER -> Len(ref.turns) > 0

Turn(role, kind, rid, text) == [role |-> role, kind |-> kind, rid |-> rid, text |-> text]

\* ------------------------------------------------------- claude_client.py
NoneRequest == [id |-> 0, tool_name |-> "None", tool_params |-> "None"]

ToolRequest(id, tool_name, tool_params) ==
    [id |-> id, tool_name |-> tool_name, tool_params |-> tool_params]

\* the dataclass has exactly these three fields
ClaudeResponse(type, content, tool_request) ==
    [type |-> type, content |-> content, tool_request |-> tool_request]

NoResponse == ClaudeResponse("none", <<>>, NoneRequest)

\* ClaudeClient.__init__: an instance starts with no conversations
ClaudeClient == EmptyMap

\* What a ClaudeClient method hands back: the instance's conversations, the
\* exception raised ("none" when it returned), the value returned, the uuid
\* counter and the number of AI API calls made.
Ret(convs, exc, value, response, u, calls) ==
    [convs |-> convs, exc |-> exc, value |-> value, response |-> response,
     uuid |-> u, ai_calls |-> calls]

\* `conversation_id not in self.conversations`: hashing a list raises TypeError
Lookup(convs, ref) ==
    CASE ref.kind = "list" -> "TypeError"
      [] ref.kind = "id" /\ ref.id \in DOMAIN convs -> "none"
      [] OTHER -> "ValueError"

create_conversation(convs, u, tools) ==
    LET id == u + 1
        sys == Turn("system", "prompt", 0, tools)
    IN  Ret(Put(convs, id, <<sys>>), "none", IdRef(id), NoResponse, id, 0)

\* add_context creating the conversation it does not find
add_context_creates(convs, u, ref, messages) ==
    CASE Lookup(convs, ref) = "TypeError" -> Ret(convs, "TypeError", NoneRef, NoResponse, u, 0)
      [] Lookup(convs, ref) = "ValueError" ->
            Ret(Put(convs, ref.id, messages), "none", NoneRef, NoResponse, u, 0)
      [] OTHER ->
            Ret([convs EXCEPT ![ref.id] = SubSeq(convs[ref.id], 1, 1) \o messages],
                "none", NoneRef, NoResponse, u, 0)

add_context(convs, u, ref, messages) ==
    IF Lookup(convs, ref) # "none"
    THEN Ret(convs, Lookup(convs, ref), NoneRef, NoResponse, u, 0)
    ELSE Ret([convs EXCEPT ![ref.id] = SubSeq(convs[ref.id], 1, 1) \o messages],
             "none", NoneRef, NoResponse, u, 0)

\* the response-type decision with the final-answer test made first
classify_reply_final_first(response_text, u) ==
    IF Contains(response_text, "<final_answer>")
    THEN [response |-> ClaudeResponse("final_answer",
                          Replace(Replace(response_text, "<final_answer>"), "</final_answer>"),
                          NoneRequest),
          uuid |-> u]
    ELSE IF Contains(response_text, "<tool_use>")
    THEN [response |-> ClaudeResponse("tool_use_request", response_text,
                          ToolRequest(u + 1, "example_tool", "param1=value1")),
          uuid |-> u + 1]
    ELSE [response |-> ClaudeResponse("text", response_text, NoneRequest), uuid |-> u]

\* the response-type decision of send_message and send_tool_result
classify_reply(response_text, u) ==
    IF Contains(response_text, "<tool_use>")
    THEN [response |-> ClaudeResponse("tool_use_request", response_text,
                          ToolRequest(u + 1, "example_tool", "param1=value1")),
          uuid |-> u + 1]
    ELSE IF Contains(response_text, "<final_answer>")
    THEN [response |-> ClaudeResponse("final_answer",
                          Replace(Replace(response_text, "<final_answer>"), "</final_answer>"),
                          NoneRequest),
          uuid |-> u]
    ELSE [response |-> ClaudeResponse("text", response_text, NoneRequest), uuid |-> u]

\* append `turn`, call the API, and put the reply in place of `turn`
ask_claude_replaces(convs, id, turn, ai) ==
    LET c1 == [convs EXCEPT ![id] = Append(@, turn)]
    IN  IF ai.raises
        THEN [convs |-> c1, exc |-> "APIError"]
        ELSE [convs |-> [convs EXCEPT ![id] = Append(@, Turn("assistant", "reply", 0, ai.text))],
              exc |-> "none"]

\* append `turn`, call the API, append the assistant turn
ask_claude(convs, id, turn, ai) ==
    LET c1 == [convs EXCEPT ![id] = Append(@, turn)]
    IN  IF ai.raises
        THEN [convs |-> c1, exc |-> "APIError"]
        ELSE [convs |-> [c1 EXCEPT ![id] = Append(@, Turn("assistant", "reply", 0, ai.text))],
              exc |-> "none"]

send_message(convs, u, ref, message, ai) ==
    IF Lookup(convs, ref) # "none"
    THEN Ret(convs, Lookup(convs, ref), NoneRef, NoResponse, u, 0)
    ELSE LET r == ask_claude(convs, ref.id, Turn("human", "message", 0, message), ai)
         IN  IF r.exc # "none"
             THEN Ret(r.convs, r.exc, NoneRef, NoResponse, u, 1)
             ELSE LET c == classify_reply(ai.text, u)
                  IN  Ret(r.convs, "none", NoneRef, c.response, c.uuid, 1)

send_tool_result(convs, u, ref, request_id, tool_result, ai) ==
    IF Lookup(convs, ref) # "none"
    THEN Ret(convs, Lookup(convs, ref), NoneRef, NoResponse, u, 0)
    ELSE LET r == ask_claude(convs, ref.id,
                             Turn("system", "tool_result", request_id, <<tool_result>>), ai)
         IN  IF r.exc # "none"
             THEN Ret(r.convs, r.exc, NoneRef, NoResponse, u, 1)
             ELSE LET c == classify_reply(ai.text, u)
                  IN  Ret(r.convs, "none", NoneRef, c.response, c.uuid, 1)

notify_tool_denial(convs, u, ref, request_id, ai) ==
    IF Lookup(convs, ref) # "none"
    THEN Ret(convs, Lookup(convs, ref), NoneRef, NoResponse, u, 0)
    ELSE LET r == ask_claude(convs, ref.id, Turn("system", "denied", request_id, <<>>), ai)
         IN  IF r.exc # "none"
             THEN Ret(r.convs, r.exc, NoneRef, NoResponse, u, 1)
             ELSE Ret(r.convs, "none", NoneRef,
                      ClaudeResponse("text", ai.text, NoneRequest), u, 1)

\* ---------------------------------------------------------- mcp_manager.py
\* MCPManager.execute_tool: the client call returns or raises; an exception
\* becomes the value {"error": ...}. `handler` records who called. The
\* call passes the request id alone: no tool name and no parameters.
execute_tool(log, request_id, handler, tool_ok) ==
    [log |-> Append(log, [rid |-> request_id, handler |-> handler,
                          tool_name |-> "None", tool_params |-> "None"]),
     result |-> IF tool_ok THEN "result" ELSE "error"]

\* what the MCP client's list_tools() returns when it answers
ListedTools == <<"test_tool">>

\* MCPManager.get_available_tools: the tools listed, or [] when listing raises
get_available_tools(listing_ok, tools) == IF listing_ok THEN tools ELSE <<>>

\* ------------------------------------------------- configuration (utils.py)
\* A configuration is the dict json.load returns: it has a "servers" key or
\* not, and under it a list of entries. An entry is a dict: `keys` are the
\* keys it has, `name` and `command` the values under those two keys.
ServerEntry(keys, name, command) == [keys |-> keys, name |-> name, command |-> command]

McpConfig(has_servers, servers) == [has_servers |-> has_servers, servers |-> servers]

EntriesUpTo(n, entries) == UNION {[1..k -> entries] : k \in 0..n}

\* the configuration, before a file is loaded
NoConfig == McpConfig(FALSE, <<>>)

\* the loop of validate_mcp_config from entry i on: the first entry that
\* lacks "name", or lacks both "command" and "module", ends it with False
RECURSIVE validate_servers(_, _)
validate_servers(servers, i) ==
    IF i > Len(servers) THEN TRUE
    ELSE IF "name" \notin servers[i].keys THEN FALSE
    ELSE IF "command" \notin servers[i].keys /\ "module" \notin servers[i].keys THEN FALSE
    ELSE validate_servers(servers, i + 1)

\* validate_mcp_config with the second test of the loop written with `or`
validate_mcp_config_either(cfg) ==
    /\ cfg.has_servers
    /\ \A i \in DOMAIN cfg.servers :
          /\ "name" \in cfg.servers[i].keys
          /\ ~("command" \notin cfg.servers[i].keys \/ "module" \notin cfg.servers[i].keys)

validate_mcp_config(cfg) ==
    IF ~cfg.has_servers THEN FALSE
    ELSE validate_servers(cfg.servers, 1)

\* ------------------------------------------------ supervisor (mcp_manager.py)
\* The process table of the operating system is a sequence: the pid of a
\* process is its index. A process is "running"; "killed" once SIGKILL was
\* sent to it and until it dies; a "zombie" when it has exited and nobody
\* has waited for it; "gone" after that. `name` and `cmd` record what it was
\* launched for.
OsProcess(name, cmd, state) == [name |-> name, cmd |-> cmd, state |-> state]

Alive(p) == p.state \in {"running", "killed"}

\* What a supervisor method leaves behind: server_processes, the process
\* table, the exception that left it ("none" when it returned), the value
\* it returned and the pid _start_process returned last.
Sup(table, ps, exc, ret) ==
    [table |-> table, procs |-> ps, exc |-> exc, ret |-> ret, pid |-> 0]

\* subprocess._cleanup(), which every Popen() runs first: children that have
\* exited and whose Popen object was dropped are waited for
Reaped(ps) ==
    [pid \in DOMAIN ps |-> IF ps[pid].state = "zombie"
                           THEN [ps[pid] EXCEPT !.state = "gone"] ELSE ps[pid]]

\* what Popen may do: raise (no such executable, fork failure), start a
\* process that stays, or start one that has exited 0.5 s later
LaunchOutcomes == {"raises", "runs", "exits"}

\* _start_process: Popen([cmd] + args), then psutil.Process(pid). A command
\* of None (no "command" key) makes Popen raise TypeError.
_start_process(sup, name, cmd, outcome) ==
    IF cmd = "None" THEN [sup EXCEPT !.exc = "TypeError"]
    ELSE IF outcome = "raises" THEN [sup EXCEPT !.exc = "OSError"]
    ELSE [sup EXCEPT !.procs = Append(Reaped(sup.procs),
                                      OsProcess(name, cmd, IF outcome = "exits"
                                                           THEN "zombie" ELSE "running")),
                     !.pid = Len(sup.procs) + 1]

\* _is_process_running: is_running() and status() != STATUS_ZOMBIE, False on
\* NoSuchProcess
_is_process_running(ps, pid) == Alive(ps[pid])

\* server_config.get("name", "unnamed-server")
NameOf(server) == IF "name" \in server.keys THEN server.name ELSE "unnamed-server"

\* server_config.get("command")
CommandOf(server) == IF "command" \in server.keys THEN server.command ELSE "None"

\* the loop of start_mcp_servers from entry i on; outcomes[i] is what Popen
\* does for entry i. An exception ends the loop and leaves start_mcp_servers.
RECURSIVE start_servers_from(_, _, _, _)
start_servers_from(sup, servers, i, outcomes) ==
    IF i > Len(servers) THEN sup
    ELSE LET server_name == NameOf(servers[i])
             server_cmd == CommandOf(servers[i])
         IN  IF server_cmd # "None"
             THEN LET started == _start_process(sup, server_name, server_cmd, outcomes[i])
                  IN  IF started.exc # "none" THEN started
                      ELSE start_servers_from(
                               [started EXCEPT !.table = Put(@, server_name, started.pid)],
                               servers, i + 1, outcomes)
             ELSE start_servers_from(sup, servers, i + 1, outcomes)

start_mcp_servers(sup, cfg, outcomes) ==
    start_servers_from(sup, IF cfg.has_servers THEN cfg.servers ELSE <<>>, 1, outcomes)

\* _initialize_client: self.config.get("servers", [{}])[0] fails on an empty list
_initialize_client(sup, cfg) ==
    IF cfg.has_servers /\ cfg.servers = <<>> THEN [sup EXCEPT !.exc = "IndexError"] ELSE sup

\* MCPManager.__init__ once json.load has returned cfg
MCPManager(cfg, outcomes) ==
    LET started == start_mcp_servers(Sup(EmptyMap, <<>>, "none", "none"), cfg, outcomes)
    IN  IF started.exc # "none" THEN started
        ELSE _initialize_client(started, cfg)

\* terminate(), wait_procs(timeout=5) and, for a process still alive then,
\* kill(): what restart_server does to the old process. term_exits: the
\* process dies within the 5 s.
terminate_then_kill(ps, pid, term_exits) ==
    CASE ps[pid].state = "gone" -> ps
      [] ps[pid].state = "zombie" -> [ps EXCEPT ![pid].state = "gone"]
      [] OTHER -> IF term_exits THEN [ps EXCEPT ![pid].state = "gone"]
                  ELSE [ps EXCEPT ![pid].state = "killed"]

\* next((s for s in servers if s.get("name") == server_name), None): the
\* index of the first entry with that name, 0 when there is none
RECURSIVE find_config(_, _, _)
find_config(servers, server_name, i) ==
    IF i > Len(servers) THEN 0
    ELSE IF "name" \in servers[i].keys /\ servers[i].name = server_name THEN i
    ELSE find_config(servers, server_name, i + 1)

restart_server(sup, cfg, server_name, term_exits, outcome) ==
    IF server_name \notin DOMAIN sup.table THEN [sup EXCEPT !.ret = "False"]
    ELSE LET ps1 == terminate_then_kill(sup.procs, sup.table[server_name], term_exits)
             sup1 == [sup EXCEPT !.procs = ps1]
             servers == IF cfg.has_servers THEN cfg.servers ELSE <<>>
             k == find_config(servers, server_name, 1)
         IN  IF k = 0 THEN [sup1 EXCEPT !.ret = "False"]
             ELSE LET started == _start_process(sup1, server_name, CommandOf(servers[k]),
                                                outcome)
                  IN  IF started.exc # "none" THEN started
                      ELSE [started EXCEPT
                               !.table = Put(@, server_name, started.pid),
                               !.ret = IF _is_process_running(started.procs, started.pid)
                                       THEN "True" ELSE "False"]

\* `del` emptying the table instead of removing one key
WithoutAll(f, k) == [x \in {} |-> f[x]]

Without(f, k) == [x \in (DOMAIN f) \ {k} |-> f[x]]

\* stop_server with the `del` done before the outcome of kill() is known
stop_server_forgets(sup, server_name, term_exits, kill_exits) ==
    IF server_name \notin DOMAIN sup.table THEN [sup EXCEPT !.ret = "False"]
    ELSE LET pid == sup.table[server_name]
             removed == Without(sup.table, server_name)
         IN  CASE sup.procs[pid].state = "gone" ->
                    [sup EXCEPT !.table = removed, !.ret = "True"]
               [] sup.procs[pid].state = "zombie" \/ term_exits \/ kill_exits ->
                    [sup EXCEPT !.procs[pid].state = "gone", !.table = removed,
                                !.ret = "True"]
               [] OTHER ->
                    [sup EXCEPT !.procs[pid].state = "killed", !.table = removed,
                                !.ret = "False"]

\* kill_exits: the process dies within the 3 s that follow kill()
stop_server(sup, server_name, term_exits, kill_exits) ==
    IF server_name \notin DOMAIN sup.table THEN [sup EXCEPT !.ret = "False"]
    ELSE LET pid == sup.table[server_name]
             removed == Without(sup.table, server_name)
         IN  CASE sup.procs[pid].state = "gone" ->
                    [sup EXCEPT !.table = removed, !.ret = "True"]
               [] sup.procs[pid].state = "zombie" \/ term_exits \/ kill_exits ->
                    [sup EXCEPT !.procs[pid].state = "gone", !.table = removed,
                                !.ret = "True"]
               [] OTHER ->
                    [sup EXCEPT !.procs[pid].state = "killed", !.ret = "False"]

\* the record get_server_status builds for one name. For a zombie the psutil
\* calls either all answer (status "zombie", is_running() True) or one of them
\* raises ZombieProcess, a NoSuchProcess: that depends on the platform.
status_record(table, ps, name, zombie_raises) ==
    IF name \notin DOMAIN table
    THEN [status |-> "unknown", error |-> "Server not found"]
    ELSE LET pid == table[name]
         IN  IF ps[pid].state = "gone" \/ (ps[pid].state = "zombie" /\ zombie_raises)
             THEN [status |-> "stopped", running |-> FALSE, error |-> "Process not found"]
             ELSE [pid |-> pid,
                   status |-> IF ps[pid].state = "zombie" THEN "zombie" ELSE "running",
                   running |-> TRUE]

\* get_server_status(server_name); "None" stands for no argument.
\* `[server_name] if server_name else self.server_processes.keys()`: the
\* empty string is falsy, as None is
get_server_status(table, ps, server_name, zombie_raises) ==
    LET servers == IF server_name \notin {"None", ""} THEN {server_name} ELSE DOMAIN table
    IN  [name \in servers |-> status_record(table, ps, name, zombie_raises)]

\* MCPManager.__del__: every tracked process that is_running() is sent
\* SIGTERM and waited for 5 s; those in `stubborn` are still there then and
\* are sent SIGKILL
teardown(table, ps, stubborn) ==
    LET tracked == {table[n] : n \in DOMAIN table}
    IN  [pid \in DOMAIN ps |->
            IF pid \notin tracked \/ ps[pid].state = "gone" THEN ps[pid]
            ELSE IF ps[pid].state = "zombie" \/ pid \notin stubborn
            THEN [ps[pid] EXCEPT !.state = "gone"]
            ELSE [ps[pid] EXCEPT !.state = "killed"]]

\* no supervisor exists, and no operation has run
NoOp == [state |-> "none", op |-> "none", name |-> "", ret |-> "none", exc |-> "none",
         status |-> EmptyMap]

\* --------------------------------------------------------- slack_client.py
\* The running handler's view: the module globals, the ClaudeClient instance
\* it made, and what it has sent to Slack so far.
Ctx(store, u, log, iss) ==
    [store |-> store, uuid |-> u, execLog |-> log, issued |-> iss,
     convs |-> ClaudeClient, exc |-> "none", says |-> <<>>, updates |-> <<>>,
     posts |-> <<>>, ai_calls |-> 0, response |-> NoResponse, read_thread_ts |-> FALSE]

NotFoundText == "Unable to process: Conversation data not found."
ApprovedText == "Tool use approved. Processing..."
DeniedText == "Tool use denied."

IsMentionToken(tok) == tok = "<@U1>"

\* event["text"].split(">", 1)[1].strip() if ">" in event["text"] else event["text"]
user_message_of(text) ==
    IF \E i \in DOMAIN text : IsMentionToken(text[i])
    THEN LET first == CHOOSE i \in DOMAIN text :
                          /\ IsMentionToken(text[i])
                          /\ \A j \in 1..(i - 1) : ~IsMentionToken(text[j])
         IN  SubSeq(text, first + 1, Len(text))
    ELSE text

RECURSIVE format_messages_for_claude(_)
format_messages_for_claude(messages) ==
    IF messages = <<>> THEN <<>>
    ELSE LET msg == Head(messages)
             rest == format_messages_for_claude(Tail(messages))
         IN  IF msg.bot_id THEN rest
             ELSE <<Turn("human", "message", 0, msg.text)>> \o rest

\* say(text=content, thread_ts=...) when the event has a thread_ts, else say(text=content)
post_message(ctx, content, ev) ==
    [ctx EXCEPT !.says = Append(@, [text |-> content, threaded |-> ev.has_thread_ts])]

request_tool_approval(ctx, ev, conversation_id, tool_request) ==
    LET value == [conversation_id |-> conversation_id, request_id |-> tool_request.id]
        blocks == [tool_name |-> tool_request.tool_name,
                   tool_params |-> tool_request.tool_params,
                   approve_value |-> value, approve_action_id |-> "approve_tool_use",
                   deny_value |-> value, deny_action_id |-> "deny_tool_use",
                   threaded |-> TRUE]
    IN  [ctx EXCEPT !.posts = Append(@, blocks),
                    !.issued = @ \cup {value}]

\* `response.conversation`: ClaudeResponse declares no such attribute
HasConversation(response) == "conversation" \in DOMAIN response

\* handle_claude_response asking for approval without storing the conversation
handle_claude_response_unstored(ctx, ev, response) ==
    IF ~HasConversation(response)
    THEN [ctx EXCEPT !.exc = "AttributeError"]
    ELSE CASE response.type = "text" -> post_message(ctx, response.content, ev)
           [] response.type = "tool_use_request" ->
                LET conversation_id == ctx.uuid + 1
                IN  request_tool_approval([ctx EXCEPT !.uuid = conversation_id], ev,
                                          conversation_id, response.tool_request)
           [] response.type = "final_answer" -> post_message(ctx, response.content, ev)
           [] OTHER -> ctx

handle_claude_response(ctx, ev, response) ==
    IF ~HasConversation(response)
    THEN [ctx EXCEPT !.exc = "AttributeError"]
    ELSE CASE response.type = "text" -> post_message(ctx, response.content, ev)
           [] response.type = "tool_use_request" ->
                LET conversation_id == ctx.uuid + 1
                    parked == [ctx EXCEPT !.uuid = conversation_id,
                                          !.store = Put(@, conversation_id, response.conversation)]
                IN  request_tool_approval(parked, ev, conversation_id, response.tool_request)
           [] response.type = "final_answer" -> post_message(ctx, response.content, ev)
           [] OTHER -> ctx

\* fold what a ClaudeClient method did into the handler's view
After(ctx, r) ==
    [ctx EXCEPT !.convs = r.convs, !.uuid = r.uuid, !.exc = r.exc,
                !.ai_calls = @ + r.ai_calls, !.response = r.response]

process_message(ctx, ev, user_message, thread_history, ai) ==
    LET tools == get_available_tools(ev.listing_ok, ListedTools)
        made == create_conversation(ClaudeClient, ctx.uuid, tools)
        ctx1 == After(ctx, made)
        added == IF thread_history # <<>>
                 THEN add_context(ctx1.convs, ctx1.uuid, made.value, thread_history)
                 ELSE Ret(ctx1.convs, "none", made.value, NoResponse, ctx1.uuid, 0)
        ctx2 == After(ctx1, added)
        sent == send_message(ctx2.convs, ctx2.uuid, added.value, user_message, ai)
        ctx3 == After(ctx2, sent)
    IN  IF ctx2.exc # "none" THEN ctx2
        ELSE IF ctx3.exc # "none" THEN ctx3
        ELSE handle_claude_response(ctx3, ev, sent.response)

handle_mention(ctx, ev, ai) ==
    LET user_message == user_message_of(ev.text)
    IN  IF ev.has_thread_ts
        THEN process_message(ctx, ev, user_message,
                             format_messages_for_claude(ev.replies), ai)
        ELSE process_message(ctx, ev, user_message, <<>>, ai)

\* conversation_store.get(conversation_id)
StoreGet(store, conversation_id) ==
    IF conversation_id \in DOMAIN store THEN store[conversation_id] ELSE NoneRef

\* the tail shared by both decision handlers: store the reply's conversation,
\* build the event from body["message"]["thread_ts"], handle the reply
resume(ctx, body, response) ==
    IF ~HasConversation(response) THEN [ctx EXCEPT !.exc = "AttributeError"]
    ELSE LET stored == [ctx EXCEPT !.store = Put(@, body.conversation_id, response.conversation),
                                   !.read_thread_ts = TRUE]
         IN  IF ~body.message_has_thread_ts THEN [stored EXCEPT !.exc = "KeyError"]
             ELSE handle_claude_response(stored, [has_thread_ts |-> FALSE], response)

\* handle_tool_approval without its `if not conversation: ... return`
handle_tool_approval_unguarded(ctx, body, tool_ok, ai) ==
    LET conversation == StoreGet(ctx.store, body.conversation_id)
        ctx1 == [ctx EXCEPT !.updates = Append(@, ApprovedText)]
        ran == execute_tool(ctx1.execLog, body.request_id, "approve", tool_ok)
        ctx2 == [ctx1 EXCEPT !.execLog = ran.log]
        sent == send_tool_result(ClaudeClient, ctx2.uuid, conversation,
                                 body.request_id, ran.result, ai)
        ctx3 == After(ctx2, sent)
    IN  IF ctx3.exc # "none" THEN ctx3
        ELSE resume(ctx3, body, sent.response)

\* handle_tool_approval asking for approval again, under the same
\* conversation id, before it executes
handle_tool_approval_reissues(ctx, body, tool_ok, ai) ==
    LET conversation == StoreGet(ctx.store, body.conversation_id)
    IN  IF ~Truthy(conversation)
        THEN [ctx EXCEPT !.updates = Append(@, NotFoundText)]
        ELSE LET again == request_tool_approval(
                              [ctx EXCEPT !.uuid = @ + 1], [has_thread_ts |-> FALSE],
                              body.conversation_id,
                              ToolRequest(ctx.uuid + 1, "example_tool", "param1=value1"))
                 ran == execute_tool(again.execLog, body.request_id, "approve", tool_ok)
             IN  [again EXCEPT !.updates = Append(@, ApprovedText), !.execLog = ran.log,
                               !.exc = "TypeError"]

handle_tool_approval(ctx, body, tool_ok, ai) ==
    LET conversation == StoreGet(ctx.store, body.conversation_id)
    IN  IF ~Truthy(conversation)
        THEN [ctx EXCEPT !.updates = Append(@, NotFoundText)]
        ELSE LET ctx1 == [ctx EXCEPT !.updates = Append(@, ApprovedText)]
                 ran == execute_tool(ctx1.execLog, body.request_id, "approve", tool_ok)
                 ctx2 == [ctx1 EXCEPT !.execLog = ran.log]
                 sent == send_tool_result(ClaudeClient, ctx2.uuid, conversation,
                                          body.request_id, ran.result, ai)
                 ctx3 == After(ctx2, sent)
             IN  IF ctx3.exc # "none" THEN ctx3
                 ELSE resume(ctx3, body, sent.response)

\* handle_tool_denial written as a copy of the approval handler, execute_tool included
handle_tool_denial_executes(ctx, body, ai) ==
    LET conversation == StoreGet(ctx.store, body.conversation_id)
    IN  IF ~Truthy(conversation)
        THEN [ctx EXCEPT !.updates = Append(@, NotFoundText)]
        ELSE LET ctx1 == [ctx EXCEPT !.updates = Append(@, DeniedText)]
                 ran == execute_tool(ctx1.execLog, body.request_id, "deny", TRUE)
                 ctx2 == [ctx1 EXCEPT !.execLog = ran.log]
                 sent == notify_tool_denial(ClaudeClient, ctx2.uuid, conversation,
                                            body.request_id, ai)
                 ctx3 == After(ctx2, sent)
             IN  IF ctx3.exc # "none" THEN ctx3
                 ELSE resume(ctx3, body, sent.response)

handle_tool_denial(ctx, body, ai) ==
    LET conversation == StoreGet(ctx.store, body.conversation_id)
    IN  IF ~Truthy(conversation)
        THEN [ctx EXCEPT !.updates = Append(@, NotFoundText)]
        ELSE LET ctx1 == [ctx EXCEPT !.updates = Append(@, DeniedText)]
                 sent == notify_tool_denial(ClaudeClient, ctx1.uuid, conversation,
                                            body.request_id, ai)
                 ctx2 == After(ctx1, sent)
             IN  IF ctx2.exc # "none" THEN ctx2
                 ELSE resume(ctx2, body, sent.response)

\* ------------------------------------------------------------ environment
\* replies of the AI API: plain text, a final answer, a tool request naming
\* tool "lookup" with parameter q=weather, a tool marker with no payload
AIReplies ==
    { <<"hello">>,
      <<"<final_answer>", "done", "</final_answer>">>,
      <<"<tool_use>", "lookup", "q=weather">>,
      <<"<tool_use>">> }

AIOutcomes ==
    {[raises |-> TRUE, text |-> <<>>]} \cup {[raises |-> FALSE, text |-> t] : t \in AIReplies}

EventTexts == { <<"<@U1>", "hi">>, <<"hi">> }

UserMsg == [text |-> <<"earlier">>, bot_id |-> FALSE]
BotMsg == [text |-> <<"answer">>, bot_id |-> TRUE]

\* what conversations_replies returns for a thread
ThreadReplies == { <<BotMsg>>, <<UserMsg>>, <<UserMsg, BotMsg>> }

NoEvent ==
    [kind |-> "none", text |-> <<>>, has_thread_ts |-> FALSE, replies |-> <<>>,
     listing_ok |-> TRUE, conversation_id |-> 0, request_id |-> 0,
     message_has_thread_ts |-> FALSE, tool_ok |-> TRUE,
     ai |-> [raises |-> FALSE, text |-> <<>>]]

Outcome(ctx, ranBefore) ==
    [exc |-> ctx.exc, says |-> ctx.says, updates |-> ctx.updates, posts |-> ctx.posts,
     ai_calls |-> ctx.ai_calls, execs |-> Len(ctx.execLog) - ranBefore,
     response |-> ctx.response]

\* the handler ran to its end (return or exception): publish what it did
Finish(ev, ctx) ==
    /\ event' = ev
    /\ out' = Outcome(ctx, Len(execLog))
    /\ conversation_store' = ctx.store
    /\ uuid' = ctx.uuid
    /\ execLog' = ctx.execLog
    /\ issued' = ctx.issued
    /\ claude' = ctx.convs
    /\ UNCHANGED supVars

Init ==
    /\ conversation_store = EmptyMap
    /\ uuid = 0
    /\ execLog = <<>>
    /\ issued = {}
    /\ claude = EmptyMap
    /\ event = NoEvent
    /\ out = Outcome(Ctx(EmptyMap, 0, <<>>, {}), 0)
    /\ config = NoConfig
    /\ server_processes = EmptyMap
    /\ procs = EmptyMap
    /\ mgr = NoOp
    /\ threads = EmptyMap

\* An input is drawn when the handler reads it; one it never reads keeps the
\* value it has in NoEvent.
Drawn(read, values, unread) == IF read THEN values ELSE {unread}

Now == Ctx(conversation_store, uuid, execLog, issued)

MentionEvent(text, threaded, replies, listing_ok, ai) ==
    [NoEvent EXCEPT !.kind = "mention", !.text = text, !.has_thread_ts = threaded,
                    !.replies = replies, !.listing_ok = listing_ok, !.ai = ai]

\* app.event("app_mention") -> handle_mention
Mention ==
    /\ uuid + 2 <= MaxUuid
    /\ \E text \in EventTexts, threaded \in BOOLEAN, listing_ok \in BOOLEAN :
       \E replies \in Drawn(threaded, ThreadReplies, <<>>) :
       \E ai \in Drawn(handle_mention(Now, MentionEvent(text, threaded, replies, listing_ok,
                                                        NoEvent.ai), NoEvent.ai).ai_calls > 0,
                       AIOutcomes, NoEvent.ai) :
          LET ev == MentionEvent(text, threaded, replies, listing_ok, ai)
          IN  Finish(ev, handle_mention(Now, ev, ai))

DecisionEvent(kind, cid, rid, tool_ok, ai, mts) ==
    [NoEvent EXCEPT !.kind = kind, !.conversation_id = cid, !.request_id = rid,
                    !.tool_ok = tool_ok, !.ai = ai, !.message_has_thread_ts = mts]

\* an Approve click delivered to handle_tool_approval
Approve ==
    /\ Len(execLog) < MaxExec
    /\ uuid <= MaxUuid
    /\ \E cid \in Ids, rid \in Ids :
       LET run(tool_ok, ai, mts) ==
               handle_tool_approval(Now, DecisionEvent("approve", cid, rid, tool_ok, ai, mts),
                                    tool_ok, ai)
           first == run(NoEvent.tool_ok, NoEvent.ai, NoEvent.message_has_thread_ts)
       IN  \E tool_ok \in Drawn(first.execLog # execLog, BOOLEAN, NoEvent.tool_ok) :
           \E ai \in Drawn(first.ai_calls > 0, AIOutcomes, NoEvent.ai) :
           \E mts \in Drawn(run(tool_ok, ai, NoEvent.message_has_thread_ts).read_thread_ts,
                            BOOLEAN, NoEvent.message_has_thread_ts) :
              Finish(DecisionEvent("approve", cid, rid, tool_ok, ai, mts), run(tool_ok, ai, mts))

\* a Deny click delivered to handle_tool_denial
Deny ==
    /\ uuid <= MaxUuid
    /\ \E cid \in Ids, rid \in Ids :
       LET run(ai, mts) ==
               handle_tool_denial(Now, DecisionEvent("deny", cid, rid, NoEvent.tool_ok, ai, mts),
                                  ai)
           first == run(NoEvent.ai, NoEvent.message_has_thread_ts)
       IN  \E ai \in Drawn(first.ai_calls > 0, AIOutcomes, NoEvent.ai) :
           \E mts \in Drawn(run(ai, NoEvent.message_has_thread_ts).read_thread_ts,
                            BOOLEAN, NoEvent.message_has_thread_ts) :
              Finish(DecisionEvent("deny", cid, rid, NoEvent.tool_ok, ai, mts), run(ai, mts))

\* The repository's tests park a conversation by hand before they deliver a
\* decision: conversation_store[conversation_id] = [system turn], with the
\* request id of the ToolRequest they built.
first_conversation == ListRef(<<Turn("system", "prompt", 0, <<>>)>>)

\* the tool request those tests show in the approval message of request rid
tool_request(rid) == ToolRequest(rid, "test_tool", "param1=test_value")

Seed ==
    /\ uuid + 2 <= MaxUuid
    /\ LET request_id == uuid + 1
           conversation_id == uuid + 2
       IN  /\ conversation_store' = Put(conversation_store, conversation_id, first_conversation)
           /\ issued' = issued \cup {[conversation_id |-> conversation_id,
                                      request_id |-> request_id]}
           /\ uuid' = conversation_id
           /\ event' = [NoEvent EXCEPT !.kind = "seed", !.conversation_id = conversation_id,
                                       !.request_id = request_id]
           /\ out' = Outcome(Ctx(EmptyMap, 0, <<>>, {}), 0)
           /\ claude' = EmptyMap
           /\ UNCHANGED execLog
           /\ UNCHANGED supVars

Next == Mention \/ Approve \/ Deny

\* the bot as deployed: events reach the three handlers
Spec == Init /\ [][Next]_vars

HarnessNext == Next \/ Seed

\* the handlers driven as the repository's tests drive them
HarnessSpec == Init /\ [][HarnessNext]_vars

\* ------------------------------------------- handlers, the AI client patched
\* tests/test_slack_handlers.py and tests/test_integration.py replace
\* slack_client.ClaudeClient by a mock whose methods return a response
\* object that does have a `conversation` attribute, and call
\* handle_claude_response and the decision handlers with it.
PatchedResponse(type, content, request, conversation) ==
    [type |-> type, content |-> content, tool_request |-> request,
     conversation |-> conversation]

\* the conversation the tests put into the response to a tool result
second_conversation ==
    ListRef(first_conversation.turns \o <<Turn("system", "tool_result", 0, <<"result">>)>>)

\* the responses the mock is told to return; a tool request gets the id rid
PatchedResponses(rid) ==
    UNION { { PatchedResponse("text", <<"hello">>, NoneRequest, conversation),
              PatchedResponse("final_answer", <<"done">>, NoneRequest, conversation),
              PatchedResponse("tool_use_request", <<"<tool_use>">>, tool_request(rid),
                              conversation) } :
            conversation \in {first_conversation, second_conversation} }

\* a method of the mock: returns the response, touches nothing, calls no API
patched(response, u) == Ret(ClaudeClient, "none", NoneRef, response, u, 0)

\* handle_tool_approval with ClaudeClient patched
handle_tool_approval_patched(ctx, body, tool_ok, response) ==
    LET conversation == StoreGet(ctx.store, body.conversation_id)
    IN  IF ~Truthy(conversation)
        THEN [ctx EXCEPT !.updates = Append(@, NotFoundText)]
        ELSE LET ctx1 == [ctx EXCEPT !.updates = Append(@, ApprovedText)]
                 ran == execute_tool(ctx1.execLog, body.request_id, "approve", tool_ok)
                 ctx2 == [ctx1 EXCEPT !.execLog = ran.log]
                 sent == patched(response, ctx2.uuid)
                 ctx3 == After(ctx2, sent)
             IN  resume(ctx3, body, sent.response)

\* handle_tool_denial with ClaudeClient patched
handle_tool_denial_patched(ctx, body, response) ==
    LET conversation == StoreGet(ctx.store, body.conversation_id)
    IN  IF ~Truthy(conversation)
        THEN [ctx EXCEPT !.updates = Append(@, NotFoundText)]
        ELSE LET ctx1 == [ctx EXCEPT !.updates = Append(@, DeniedText)]
                 sent == patched(response, ctx1.uuid)
                 ctx2 == After(ctx1, sent)
             IN  resume(ctx2, body, sent.response)

\* what the mock returns in the current state: a tool request takes the
\* next uuid as its id, and needs room for the conversation id after it
PatchedReturns ==
    {r \in PatchedResponses(uuid + 1) : r.type = "tool_use_request" => uuid + 2 <= MaxUuid}

\* the handler's view once the mock has built its response
Given(response) ==
    IF response.type = "tool_use_request" THEN [Now EXCEPT !.uuid = uuid + 1] ELSE Now

\* handle_claude_response(client, event, say, claude, response), called directly
Respond ==
    \E response \in PatchedReturns, threaded \in BOOLEAN :
       LET ev == [NoEvent EXCEPT !.kind = "response", !.has_thread_ts = threaded]
           ctx == After(Given(response), patched(response, Given(response).uuid))
       IN  Finish(ev, handle_claude_response(ctx, ev, response))

\* the payloads a click may carry: the ones issued, and one naming nothing stored
PatchedPayloads == issued \cup {[conversation_id |-> MaxUuid + 1, request_id |-> 1]}

PatchedApprove ==
    /\ Len(execLog) < MaxExec
    /\ \E payload \in PatchedPayloads, tool_ok \in BOOLEAN, mts \in BOOLEAN,
          response \in PatchedReturns :
          LET ev == DecisionEvent("approve", payload.conversation_id, payload.request_id,
                                  tool_ok, NoEvent.ai, mts)
          IN  Finish(ev, handle_tool_approval_patched(Given(response), ev, tool_ok, response))

PatchedDeny ==
    \E payload \in PatchedPayloads, mts \in BOOLEAN, response \in PatchedReturns :
       LET ev == DecisionEvent("deny", payload.conversation_id, payload.request_id,
                               NoEvent.tool_ok, NoEvent.ai, mts)
       IN  Finish(ev, handle_tool_denial_patched(Given(response), ev, response))

PatchedNext == Respond \/ PatchedApprove \/ PatchedDeny \/ Seed

PatchedSpec == Init /\ [][PatchedNext]_vars

\* ------------------------------------------------------- supervisor, driven
\* One MCPManager: constructed from a configuration file, then asked to
\* restart and stop servers and to report status, one call after another,
\* while the processes it launched may exit on their own; at the end the
\* object is collected.
MaxServers == 2      \* entries under "servers" in the configuration file
MaxProcs == 3        \* processes launched, all operations together

ServerNames == {"s1", "s2", "unnamed-server", "s9"}

\* the names a caller passes: a tracked one, or s9, which never is; every
\* untracked name takes the same path through the three methods
CallNames == {name \in ServerNames : name \in DOMAIN server_processes \/ name = "s9"}

\* entries a configuration file may hold: two servers with a command, a
\* second entry named s1, an entry without a name, an entry with a name only
FileEntries ==
    { ServerEntry({"name", "command"}, "s1", "run"),
      ServerEntry({"name", "command"}, "s2", "run"),
      ServerEntry({"name", "command"}, "s1", "run2"),
      ServerEntry({"command"}, "", "run"),
      ServerEntry({"name"}, "s1", "") }

ConfigFiles == {NoConfig} \cup {McpConfig(TRUE, servers) : servers \in EntriesUpTo(MaxServers, FileEntries)}

Op(state, op, name, ret, exc) ==
    [NoOp EXCEPT !.state = state, !.op = op, !.name = name, !.ret = ret, !.exc = exc]

\* a supervisor object exists and can be called
Up == mgr.state = "up"

\* MCPManager(config_path) when json.load raises
ConstructUnparseable ==
    /\ mgr.state = "none"
    /\ mgr' = Op("failed", "__init__", "", "none", "JSONDecodeError")
    /\ UNCHANGED <<config, server_processes, procs, threads>>
    /\ UNCHANGED botVars

\* MCPManager(config_path) when the file parses
Construct ==
    /\ mgr.state = "none"
    /\ \E cfg \in ConfigFiles :
       \E outcomes \in [DOMAIN cfg.servers -> LaunchOutcomes] :
          LET r == MCPManager(cfg, outcomes)
          IN  /\ config' = cfg
              /\ server_processes' = r.table
              /\ procs' = r.procs
              /\ mgr' = Op(IF r.exc = "none" THEN "up" ELSE "failed", "__init__", "",
                           "none", r.exc)
    /\ UNCHANGED threads
    /\ UNCHANGED botVars

SupNow == Sup(server_processes, procs, "none", "none")

\* the old process of `name` is one that a signal can still reach
Signalled(name) == name \in DOMAIN server_processes /\ Alive(procs[server_processes[name]])

Restart ==
    /\ Up
    /\ Len(procs) < MaxProcs
    /\ \E name \in CallNames :
       \E term_exits \in Drawn(Signalled(name), BOOLEAN, TRUE) :
       \E outcome \in Drawn(name \in DOMAIN server_processes, LaunchOutcomes, "runs") :
          LET r == restart_server(SupNow, config, name, term_exits, outcome)
          IN  /\ server_processes' = r.table
              /\ procs' = r.procs
              /\ mgr' = Op("up", "restart_server", name, r.ret, r.exc)
    /\ UNCHANGED <<config, threads>>
    /\ UNCHANGED botVars

Stop ==
    /\ Up
    /\ \E name \in CallNames :
       \E term_exits \in Drawn(Signalled(name), BOOLEAN, TRUE) :
       \E kill_exits \in Drawn(Signalled(name) /\ ~term_exits, BOOLEAN, TRUE) :
          LET r == stop_server(SupNow, name, term_exits, kill_exits)
          IN  /\ server_processes' = r.table
              /\ procs' = r.procs
              /\ mgr' = Op("up", "stop_server", name, r.ret, r.exc)
    /\ UNCHANGED <<config, threads>>
    /\ UNCHANGED botVars

Status ==
    /\ Up
    /\ \E name \in CallNames \cup {"None", ""} :
       \E zombie_raises \in Drawn(\E pid \in DOMAIN procs : procs[pid].state = "zombie",
                                 BOOLEAN, FALSE) :
          mgr' = [Op("up", "get_server_status", name, "none", "none") EXCEPT
                     !.status = get_server_status(server_processes, procs, name,
                                                  zombie_raises)]
    /\ UNCHANGED <<config, server_processes, procs, threads>>
    /\ UNCHANGED botVars

\* a process exits on its own, or dies of the SIGKILL it was sent
ProcExit ==
    /\ \E pid \in DOMAIN procs :
          /\ Alive(procs[pid])
          /\ procs' = [procs EXCEPT ![pid].state = "zombie"]
          /\ mgr' = Op(mgr.state, "exit", procs[pid].name, "none", "none")
    /\ UNCHANGED <<config, server_processes, threads>>
    /\ UNCHANGED botVars

\* the object is collected: after a constructor that raised, or at exit
Teardown ==
    /\ mgr.state \in {"up", "failed"}
    /\ \E stubborn \in SUBSET {server_processes[n] : n \in DOMAIN server_processes} :
          procs' = teardown(server_processes, procs, stubborn)
    /\ mgr' = Op("down", "__del__", "", "none", "none")
    /\ UNCHANGED <<config, server_processes, threads>>
    /\ UNCHANGED botVars

SupervisorNext ==
    \/ ConstructUnparseable
    \/ Construct
    \/ Restart
    \/ Stop
    \/ Status
    \/ ProcExit
    \/ Teardown

SupervisorSpec == Init /\ [][SupervisorNext]_vars

\* ------------------------------------------------ supervisor, asked for a tool
\* MCPManager.execute_tool called on a constructed supervisor whose server
\* processes run or have exited. The request id is handed through unread.
Execute ==
    /\ Up
    /\ Len(execLog) < MaxExec
    /\ \E tool_ok \in BOOLEAN :
          LET ran == execute_tool(execLog, 1, "caller", tool_ok)
          IN  /\ execLog' = ran.log
              /\ mgr' = Op("up", "execute_tool", "", ran.result, "none")
    /\ UNCHANGED <<config, server_processes, procs, threads>>
    /\ UNCHANGED <<conversation_store, uuid, event, out, claude, issued>>

ToolNext ==
    \/ Construct
    \/ ProcExit
    \/ Execute

ToolSpec == Init /\ [][ToolNext]_vars

\* ------------------------------------------------ supervisor, called by two
\* Two threads call restart_server or stop_server of one MCPManager for the
\* same server, once each. A thread can be suspended between any two
\* statements; what a method does is cut where it reads or writes
\* self.server_processes and where it waits: the membership test, the read
\* of the entry, terminate-and-wait, the launch, the write of the entry, the
\* liveness check, the del.
Threads == {"t1", "t2"}

Frame(op, name, pc, process, new_process, ret, exc) ==
    [op |-> op, name |-> name, pc |-> pc, process |-> process, new_process |-> new_process,
     ret |-> ret, exc |-> exc]

Idle == Frame("none", "", "idle", 0, 0, "none", "none")

Returned(frame, ret) == [frame EXCEPT !.pc = "done", !.ret = ret]

Raised(frame, exc) == [frame EXCEPT !.pc = "done", !.exc = exc]

\* a supervisor constructed from {"servers": [{"name": "s1", "command": "run"}]}
ConcConfig == McpConfig(TRUE, <<ServerEntry({"name", "command"}, "s1", "run")>>)

ConcInit ==
    /\ conversation_store = EmptyMap
    /\ uuid = 0
    /\ execLog = <<>>
    /\ issued = {}
    /\ claude = EmptyMap
    /\ event = NoEvent
    /\ out = Outcome(Ctx(EmptyMap, 0, <<>>, {}), 0)
    /\ config = ConcConfig
    /\ server_processes = MCPManager(ConcConfig, <<"runs">>).table
    /\ procs = MCPManager(ConcConfig, <<"runs">>).procs
    /\ mgr = Op("up", "__init__", "", "none", "none")
    /\ threads = [t \in Threads |-> Idle]

At(t, pc) == threads[t].pc = pc

Step(t, frame) == threads' = [threads EXCEPT ![t] = frame]

\* restart_server(name) or stop_server(name) is called
Call(t) ==
    /\ At(t, "idle")
    /\ \E op \in {"restart_server", "stop_server"} :
          Step(t, [Idle EXCEPT !.op = op, !.name = "s1", !.pc = "check"])
    /\ UNCHANGED <<config, server_processes, procs, mgr>>
    /\ UNCHANGED botVars

\* if server_name not in self.server_processes: return False
CheckTracked(t) ==
    /\ At(t, "check")
    /\ Step(t, IF threads[t].name \in DOMAIN server_processes
               THEN [threads[t] EXCEPT !.pc = "load"]
               ELSE Returned(threads[t], "False"))
    /\ UNCHANGED <<config, server_processes, procs, mgr>>
    /\ UNCHANGED botVars

\* process = self.server_processes[server_name]
LoadProcess(t) ==
    /\ At(t, "load")
    /\ Step(t, IF threads[t].name \in DOMAIN server_processes
               THEN [threads[t] EXCEPT !.pc = "term",
                                       !.process = server_processes[threads[t].name]]
               ELSE Raised(threads[t], "KeyError"))
    /\ UNCHANGED <<config, server_processes, procs, mgr>>
    /\ UNCHANGED botVars

\* restart_server: terminate(), wait_procs(5), kill(); then the lookup of the
\* configuration entry
RestartTerminate(t) ==
    /\ At(t, "term")
    /\ threads[t].op = "restart_server"
    /\ \E term_exits \in Drawn(Alive(procs[threads[t].process]), BOOLEAN, TRUE) :
          procs' = terminate_then_kill(procs, threads[t].process, term_exits)
    /\ Step(t, IF find_config(config.servers, threads[t].name, 1) = 0
               THEN Returned(threads[t], "False")
               ELSE [threads[t] EXCEPT !.pc = "launch"])
    /\ UNCHANGED <<config, server_processes, mgr>>
    /\ UNCHANGED botVars

\* new_process = self._start_process(server_cmd, server_args)
RestartLaunch(t) ==
    /\ At(t, "launch")
    /\ \E outcome \in LaunchOutcomes :
          LET k == find_config(config.servers, threads[t].name, 1)
              started == _start_process(Sup(server_processes, procs, "none", "none"),
                                        threads[t].name, CommandOf(config.servers[k]), outcome)
          IN  /\ procs' = started.procs
              /\ Step(t, IF started.exc # "none" THEN Raised(threads[t], started.exc)
                         ELSE [threads[t] EXCEPT !.pc = "store",
                                                 !.new_process = started.pid])
    /\ UNCHANGED <<config, server_processes, mgr>>
    /\ UNCHANGED botVars

\* self.server_processes[server_name] = new_process
RestartStore(t) ==
    /\ At(t, "store")
    /\ server_processes' = Put(server_processes, threads[t].name, threads[t].new_process)
    /\ Step(t, [threads[t] EXCEPT !.pc = "live"])
    /\ UNCHANGED <<config, procs, mgr>>
    /\ UNCHANGED botVars

\* return self._is_process_running(new_process)
RestartLiveness(t) ==
    /\ At(t, "live")
    /\ Step(t, Returned(threads[t], IF _is_process_running(procs, threads[t].new_process)
                                    THEN "True" ELSE "False"))
    /\ UNCHANGED <<config, server_processes, procs, mgr>>
    /\ UNCHANGED botVars

\* stop_server: terminate(), wait_procs(5), kill(), wait_procs(3)
StopTerminate(t) ==
    /\ At(t, "term")
    /\ threads[t].op = "stop_server"
    /\ LET pid == threads[t].process
       IN  \E term_exits \in Drawn(Alive(procs[pid]), BOOLEAN, TRUE) :
           \E kill_exits \in Drawn(Alive(procs[pid]) /\ ~term_exits, BOOLEAN, TRUE) :
              IF procs[pid].state = "gone"
              THEN /\ UNCHANGED procs
                   /\ Step(t, [threads[t] EXCEPT !.pc = "del"])
              ELSE IF procs[pid].state = "zombie" \/ term_exits \/ kill_exits
              THEN /\ procs' = [procs EXCEPT ![pid].state = "gone"]
                   /\ Step(t, [threads[t] EXCEPT !.pc = "del"])
              ELSE /\ procs' = [procs EXCEPT ![pid].state = "killed"]
                   /\ Step(t, Returned(threads[t], "False"))
    /\ UNCHANGED <<config, server_processes, mgr>>
    /\ UNCHANGED botVars

\* del self.server_processes[server_name]; return True
StopDelete(t) ==
    /\ At(t, "del")
    /\ IF threads[t].name \in DOMAIN server_processes
       THEN /\ server_processes' = Without(server_processes, threads[t].name)
            /\ Step(t, Returned(threads[t], "True"))
       ELSE /\ UNCHANGED server_processes
            /\ Step(t, Raised(threads[t], "KeyError"))
    /\ UNCHANGED <<config, procs, mgr>>
    /\ UNCHANGED botVars

ConcNext ==
    \E t \in Threads :
       \/ Call(t)
       \/ CheckTracked(t)
       \/ LoadProcess(t)
       \/ RestartTerminate(t)
       \/ RestartLaunch(t)
       \/ RestartStore(t)
       \/ RestartLiveness(t)
       \/ StopTerminate(t)
       \/ StopDelete(t)

ConcSpec == ConcInit /\ [][ConcNext]_vars

\* ------------------------------------------------ validate_mcp_config, called
\* validate_mcp_config applied to one configuration, as tests/test_utils.py
\* applies it.
MaxEntries == 2      \* entries under "servers" in a configuration validated

EntryKeys == {"name", "command", "module"}

ValidateConfigs ==
    {NoConfig} \cup
    {McpConfig(TRUE, servers) :
        servers \in EntriesUpTo(MaxEntries, {ServerEntry(keys, "s1", "run") : keys \in SUBSET EntryKeys})}

ValidateInit ==
    /\ conversation_store = EmptyMap
    /\ uuid = 0
    /\ execLog = <<>>
    /\ issued = {}
    /\ claude = EmptyMap
    /\ event = NoEvent
    /\ out = Outcome(Ctx(EmptyMap, 0, <<>>, {}), 0)
    /\ config \in ValidateConfigs
    /\ server_processes = EmptyMap
    /\ procs = EmptyMap
    /\ mgr = NoOp
    /\ threads = EmptyMap

Validate ==
    /\ mgr.op = "none"
    /\ mgr' = [NoOp EXCEPT !.op = "validate_mcp_config",
                           !.ret = IF validate_mcp_config(config) THEN "True" ELSE "False"]
    /\ UNCHANGED <<config, server_processes, procs, threads>>
    /\ UNCHANGED botVars

ValidateNext == Validate

ValidateSpec == ValidateInit /\ [][ValidateNext]_vars

\* ------------------------------------------------ decisions, run concurrently
\* Bolt hands every action payload to a listener thread, so two clicks are
\* two runs of handle_tool_approval / handle_tool_denial that interleave
\* between statements. The store holds the conversation a test parks by
\* hand (conversation 2, request 1); a click names it or an id not in the
\* store. A frame is a handler's locals: `pc` is the statement it runs next,
\* and `overlapped` records that another handler ran while this one did.
ParkedId == 2
ParkedRequest == 1

Handler(kind, cid, pc, conversation, tool_result, exc, updates) ==
    [kind |-> kind, conversation_id |-> cid, request_id |-> ParkedRequest, pc |-> pc,
     conversation |-> conversation, tool_result |-> tool_result, exc |-> exc,
     updates |-> updates, overlapped |-> FALSE]

\* the handler of thread t is between its first and its last statement
Running(t) == threads[t].pc \notin {"idle", "done"}

NoHandler == Handler("none", 0, "idle", NoneRef, "none", "none", <<>>)

DecideInit ==
    /\ conversation_store = Put(EmptyMap, ParkedId, first_conversation)
    /\ uuid = ParkedId
    /\ execLog = <<>>
    /\ issued = {[conversation_id |-> ParkedId, request_id |-> ParkedRequest]}
    /\ claude = EmptyMap
    /\ event = NoEvent
    /\ out = Outcome(Ctx(EmptyMap, 0, <<>>, {}), 0)
    /\ config = NoConfig
    /\ server_processes = EmptyMap
    /\ procs = EmptyMap
    /\ mgr = NoOp
    /\ threads = [t \in Threads |-> NoHandler]

DecideStep(t, frame) ==
    /\ threads' = [threads EXCEPT ![t] = frame]
    /\ UNCHANGED <<event, out, claude>>
    /\ UNCHANGED <<config, server_processes, procs, mgr>>

\* a click reaches its handler: the payload is parsed (lines 112-114, 153-155)
DecideDeliver(t) ==
    /\ threads[t].pc = "idle"
    /\ \E kind \in {"approve", "deny"}, cid \in {ParkedId, ParkedId + 1} :
          LET others == \E u \in Threads \ {t} : Running(u)
              frame == Handler(kind, cid, "get", NoneRef, "none", "none", <<>>)
          IN  threads' = [u \in Threads |->
                             IF u = t THEN [frame EXCEPT !.overlapped = others]
                             ELSE [threads[u] EXCEPT !.overlapped = @ \/ Running(u)]]
    /\ UNCHANGED <<event, out, claude>>
    /\ UNCHANGED <<config, server_processes, procs, mgr>>
    /\ UNCHANGED <<conversation_store, uuid, execLog, issued>>

\* conversation = conversation_store.get(conversation_id), and the
\* `if not conversation:` branch with its chat_update and return
DecideGet(t) ==
    /\ threads[t].pc = "get"
    /\ LET conversation == StoreGet(conversation_store, threads[t].conversation_id)
       IN  IF ~Truthy(conversation)
           THEN DecideStep(t, [threads[t] EXCEPT !.pc = "done",
                                                 !.updates = Append(@, NotFoundText)])
           ELSE DecideStep(t, [threads[t] EXCEPT !.pc = "update",
                                                 !.conversation = conversation])
    /\ UNCHANGED <<conversation_store, uuid, execLog, issued>>

\* client.chat_update(... "Tool use approved. Processing..." / "Tool use denied.")
DecideUpdate(t) ==
    /\ threads[t].pc = "update"
    /\ IF threads[t].kind = "approve"
       THEN DecideStep(t, [threads[t] EXCEPT !.pc = "execute",
                                             !.updates = Append(@, ApprovedText)])
       ELSE DecideStep(t, [threads[t] EXCEPT !.pc = "inform",
                                             !.updates = Append(@, DeniedText)])
    /\ UNCHANGED <<conversation_store, uuid, execLog, issued>>

\* tool_result = mcp_manager.execute_tool(request_id)
DecideExecute(t) ==
    /\ threads[t].pc = "execute"
    /\ Len(execLog) < MaxExec
    /\ \E tool_ok \in BOOLEAN :
          LET ran == execute_tool(execLog, threads[t].request_id, "approve", tool_ok)
          IN  /\ execLog' = ran.log
              /\ DecideStep(t, [threads[t] EXCEPT !.pc = "inform", !.tool_result = ran.result])
    /\ UNCHANGED <<conversation_store, uuid, issued>>

\* the rest of the handler, from `claude = ClaudeClient()` on: the call of
\* send_tool_result or notify_tool_denial on the fresh instance and, had it
\* returned, the store update and the handling of the reply
DecideInform(t) ==
    /\ threads[t].pc = "inform"
    /\ LET f == threads[t]
           told(ai) == IF f.kind = "approve"
                       THEN send_tool_result(ClaudeClient, uuid, f.conversation,
                                             f.request_id, f.tool_result, ai)
                       ELSE notify_tool_denial(ClaudeClient, uuid, f.conversation,
                                               f.request_id, ai)
           run(ai, mts) ==
               LET sent == told(ai)
                   ctx == After(Now, sent)
                   body == DecisionEvent(f.kind, f.conversation_id, f.request_id, TRUE, ai, mts)
               IN  IF ctx.exc # "none" THEN ctx ELSE resume(ctx, body, sent.response)
       IN  \E ai \in Drawn(told(NoEvent.ai).ai_calls > 0, AIOutcomes, NoEvent.ai) :
           \E mts \in Drawn(run(ai, NoEvent.message_has_thread_ts).read_thread_ts,
                            BOOLEAN, NoEvent.message_has_thread_ts) :
              /\ conversation_store' = run(ai, mts).store
              /\ uuid' = run(ai, mts).uuid
              /\ issued' = run(ai, mts).issued
              /\ DecideStep(t, [f EXCEPT !.pc = "done", !.exc = run(ai, mts).exc])
    /\ UNCHANGED execLog

DecideNext ==
    \E t \in Threads :
       \/ DecideDeliver(t)
       \/ DecideGet(t)
       \/ DecideUpdate(t)
       \/ DecideExecute(t)
       \/ DecideInform(t)

DecideSpec == DecideInit /\ [][DecideNext]_vars

\* ------------------------------------------------------ clicks, dispatched
\* Bolt routes a block action to the listener registered under the action
\* id the clicked button carries; a click whose action id has no listener
\* is answered "unhandled" and runs nothing. One approval message is on
\* screen, as request_tool_approval builds it for the parked conversation.
MaxClicks == 4       \* clicks on the buttons of the approval message

\* main(): app.action("approve_tool")(...), app.action("deny_tool")(...)
Listeners ==
    [action_id \in {"approve_tool", "deny_tool"} |->
        IF action_id = "approve_tool" THEN "handle_tool_approval" ELSE "handle_tool_denial"]

ShownMessage ==
    request_tool_approval(Ctx(Put(EmptyMap, ParkedId, first_conversation), ParkedId, <<>>, {}),
                          [has_thread_ts |-> FALSE], ParkedId, tool_request(ParkedRequest))

\* a click: the button pressed, the action id and the value it carries,
\* and what became of it
ClickOf(button, action_id, value, state, ran) ==
    [button |-> button, action_id |-> action_id, value |-> value, state |-> state,
     ran |-> ran]

DispatchInit ==
    /\ conversation_store = ShownMessage.store
    /\ uuid = ShownMessage.uuid
    /\ execLog = <<>>
    /\ issued = ShownMessage.issued
    /\ claude = EmptyMap
    /\ event = NoEvent
    /\ out = Outcome(ShownMessage, 0)
    /\ config = NoConfig
    /\ server_processes = EmptyMap
    /\ procs = EmptyMap
    /\ mgr = NoOp
    /\ threads = <<>>

\* the human presses Approve or Deny on the message
Click ==
    /\ Len(threads) < MaxClicks
    /\ \E button \in {"approve", "deny"} :
          LET blocks == out.posts[1]
              click == IF button = "approve"
                       THEN ClickOf(button, blocks.approve_action_id, blocks.approve_value,
                                    "pending", "none")
                       ELSE ClickOf(button, blocks.deny_action_id, blocks.deny_value,
                                    "pending", "none")
          IN  threads' = Append(threads, click)
    /\ UNCHANGED botVars
    /\ UNCHANGED <<config, server_processes, procs, mgr>>

\* Bolt looks the action id up and runs the listener, if there is one
Route ==
    \E i \in DOMAIN threads :
       /\ threads[i].state = "pending"
       /\ IF threads[i].action_id \notin DOMAIN Listeners
          THEN /\ threads' = [threads EXCEPT ![i].state = "unhandled"]
               /\ UNCHANGED botVars
          ELSE /\ Len(execLog) < MaxExec
               /\ \E tool_ok \in BOOLEAN, ai \in AIOutcomes, mts \in BOOLEAN :
                     LET listener == Listeners[threads[i].action_id]
                         ev == DecisionEvent(threads[i].button,
                                             threads[i].value.conversation_id,
                                             threads[i].value.request_id, tool_ok, ai, mts)
                         ctx == IF listener = "handle_tool_approval"
                                THEN handle_tool_approval(Now, ev, tool_ok, ai)
                                ELSE handle_tool_denial(Now, ev, ai)
                     IN  /\ event' = ev
                         /\ out' = [Outcome(ctx, Len(execLog)) EXCEPT !.posts = out.posts \o @]
                         /\ conversation_store' = ctx.store
                         /\ uuid' = ctx.uuid
                         /\ execLog' = ctx.execLog
                         /\ issued' = ctx.issued
                         /\ claude' = ctx.convs
                         /\ threads' = [threads EXCEPT ![i].state = "handled",
                                                       ![i].ran = listener]
       /\ UNCHANGED <<config, server_processes, procs, mgr>>

DispatchNext == Click \/ Route

DispatchSpec == DispatchInit /\ [][DispatchNext]_vars

\* Bolt answers every request it receives
DispatchLiveSpec == DispatchSpec /\ WF_vars(Route)

\* ------------------------------------------------- ClaudeClient, driven directly
\* One ClaudeClient instance whose methods are called one after another, as
\* tests/test_claude_client.py calls them; `claude` is its conversations dict.
MaxConvs == 1        \* conversations the instance holds
MaxTurns == 4        \* turns the instance holds, all transcripts together

ClientCalls == {"send_message", "send_tool_result", "notify_tool_denial"}

\* what the API call of a method answers: the replies of the bot's runs, and
\* a reply that carries the tool-use marker and the final-answer markers
ClientReplies ==
    AIOutcomes \cup
    {[raises |-> FALSE, text |-> <<"<tool_use>", "<final_answer>", "done", "</final_answer>">>]}

ClientEvent(kind, ref, rid, tool_ok, ai) ==
    [NoEvent EXCEPT !.kind = kind, !.conversation_id = IF ref.kind = "id" THEN ref.id ELSE 0,
                    !.request_id = rid, !.tool_ok = tool_ok, !.ai = ai]

\* the call returned or raised: publish what it did to the instance
ClientFinish(ev, r) ==
    /\ event' = ev
    /\ claude' = r.convs
    /\ uuid' = r.uuid
    /\ out' = [Outcome(Ctx(EmptyMap, 0, <<>>, {}), 0) EXCEPT
                   !.exc = r.exc, !.ai_calls = r.ai_calls, !.response = r.response]
    /\ UNCHANGED <<conversation_store, execLog, issued>>
    /\ UNCHANGED supVars

\* a conversation reference a caller may pass: None, or an id known or not
ClientRefs == {NoneRef} \cup {IdRef(i) : i \in 1..(uuid + 1) \cap Ids}

\* room for the turns a call appends, and for the uuid a tool request mints
RECURSIVE TurnsHeld(_, _)
TurnsHeld(convs, ids) ==
    IF ids = {} THEN 0
    ELSE LET id == CHOOSE i \in ids : TRUE
         IN  Len(convs[id]) + TurnsHeld(convs, ids \ {id})

ClientRoom(ref) ==
    /\ uuid < MaxUuid
    /\ TurnsHeld(claude, DOMAIN claude) + 2 <= MaxTurns

ClientCreate ==
    /\ uuid < MaxUuid
    /\ Cardinality(DOMAIN claude) < MaxConvs
    /\ TurnsHeld(claude, DOMAIN claude) < MaxTurns
    /\ \E tools \in {<<>>, ListedTools} :
          ClientFinish(ClientEvent("create_conversation", NoneRef, 0, TRUE, NoEvent.ai),
                       create_conversation(claude, uuid, tools))

ClientAddContext ==
    \E ref \in ClientRefs, messages \in {<<>>, <<UserMsg>>} :
       /\ ClientRoom(ref)
       /\ ClientFinish(ClientEvent("add_context", ref, 0, TRUE, NoEvent.ai),
                       add_context(claude, uuid, ref, format_messages_for_claude(messages)))

ClientSendMessage ==
    \E ref \in ClientRefs :
       /\ ClientRoom(ref)
       /\ \E ai \in Drawn(send_message(claude, uuid, ref, <<"hi">>, NoEvent.ai).ai_calls > 0,
                           ClientReplies, NoEvent.ai) :
             ClientFinish(ClientEvent("send_message", ref, 0, TRUE, ai),
                          send_message(claude, uuid, ref, <<"hi">>, ai))

ClientSendToolResult ==
    \E ref \in ClientRefs :
       /\ ClientRoom(ref)
       /\ LET found == Lookup(claude, ref) = "none"
          IN  \E rid \in Drawn(found, 1..(uuid + 1) \cap Ids, NoEvent.request_id),
                 tool_ok \in Drawn(found, BOOLEAN, NoEvent.tool_ok),
                 ai \in Drawn(found, ClientReplies, NoEvent.ai) :
                LET tool_result == IF tool_ok THEN "result" ELSE "error"
                IN  ClientFinish(ClientEvent("send_tool_result", ref, rid, tool_ok, ai),
                                 send_tool_result(claude, uuid, ref, rid, tool_result, ai))

ClientNotifyDenial ==
    \E ref \in ClientRefs :
       /\ ClientRoom(ref)
       /\ LET found == Lookup(claude, ref) = "none"
          IN  \E rid \in Drawn(found, 1..(uuid + 1) \cap Ids, NoEvent.request_id),
                 ai \in Drawn(found, ClientReplies, NoEvent.ai) :
                ClientFinish(ClientEvent("notify_tool_denial", ref, rid, TRUE, ai),
                             notify_tool_denial(claude, uuid, ref, rid, ai))

ClientNext ==
    \/ ClientCreate
    \/ ClientAddContext
    \/ ClientSendMessage
    \/ ClientSendToolResult
    \/ ClientNotifyDenial

ClientSpec == Init /\ [][ClientNext]_vars

\* ------------------------------------------------------------------ claims
Decision == event.kind \in {"approve", "deny"}

\* the decision handled last named a conversation the store held
FoundConversation == Decision /\ event.conversation_id \in DOMAIN conversation_store

IssuedFor(cid) == {i.request_id : i \in {j \in issued : j.conversation_id = cid}}

\* C1: execute_tool is invoked only while an Approve is handled: every
\* recorded call was made by handle_tool_approval, and the handling of a
\* mention or of a Deny makes no call.
C1_ExecuteOnlyOnApprove ==
    /\ \A i \in DOMAIN execLog : execLog[i].handler = "approve"
    /\ event.kind # "approve" => out.execs = 0

\* a Deny for a stored conversation was handled after a tool had been executed
C1_Witness ==
    /\ event.kind = "deny"
    /\ out.updates = <<DeniedText>>
    /\ Len(execLog) > 0

\* C2: an Approve naming a stored conversation but a request id other than
\* the one issued for it does not execute the tool and is not acknowledged as
\* approved.
C2_MismatchedApproveRejected ==
    ( /\ event.kind = "approve"
      /\ FoundConversation
      /\ IssuedFor(event.conversation_id) # {}
      /\ event.request_id \notin IssuedFor(event.conversation_id) )
    => (out.execs = 0 /\ out.updates # <<ApprovedText>>)

\* C3: no request id is passed to execute_tool more than once.
C3_ExecutedAtMostOnce ==
    \A i, j \in DOMAIN execLog : execLog[i].rid = execLog[j].rid => i = j

\* the "denied" system turn of request rid is in a transcript of the handler's client
DenialTurnAppended(rid) ==
    \E id \in DOMAIN claude : \E k \in DOMAIN claude[id] :
        /\ claude[id][k].role = "system"
        /\ claude[id][k].kind = "denied"
        /\ claude[id][k].rid = rid

\* C4: a Deny of the pending request of a stored conversation executes no
\* tool, appends the "denied" system turn, invokes the AI once and ends
\* without an exception.
C4_DenyInformsAI ==
    ( /\ event.kind = "deny"
      /\ FoundConversation
      /\ event.request_id \in IssuedFor(event.conversation_id) )
    => ( /\ out.execs = 0
         /\ DenialTurnAppended(event.request_id)
         /\ out.ai_calls = 1
         /\ out.exc = "none" )

C6_UnknownConversation ==
    [][ ( /\ event'.kind \in {"approve", "deny"}
          /\ event'.conversation_id \notin DOMAIN conversation_store )
        => ( /\ out'.updates = <<NotFoundText>>
             /\ out'.exc = "none"
             /\ conversation_store' = conversation_store
             /\ execLog' = execLog
             /\ out'.ai_calls = 0
             /\ out'.says = <<>> /\ out'.posts = <<>> ) ]_vars

\* an Approve for an unknown id was answered "not found" while another
\* conversation was stored
C6_Witness ==
    /\ event.kind = "approve"
    /\ conversation_store # EmptyMap
    /\ event.conversation_id \notin DOMAIN conversation_store
    /\ out.updates = <<NotFoundText>>

\* the system turn carrying the result of request rid
ResultTurnAppended(rid) ==
    \E id \in DOMAIN claude : \E k \in DOMAIN claude[id] :
        /\ claude[id][k].role = "system"
        /\ claude[id][k].kind = "tool_result"
        /\ claude[id][k].rid = rid

\* C7: a mention whose AI reply requests a tool parks the conversation under
\* a fresh id with one approval request; the Approve of a parked request
\* executes once, appends the result turn, invokes the AI once and returns.
C7_ParkThenResume ==
    /\ (event.kind = "mention" /\ out.response.type = "tool_use_request")
       => ( /\ out.exc = "none"
            /\ Len(out.posts) = 1
            /\ out.posts[1].approve_value.conversation_id \in DOMAIN conversation_store
            /\ out.posts[1].approve_value.request_id = out.response.tool_request.id )
    /\ ( /\ event.kind = "approve"
         /\ FoundConversation
         /\ event.request_id \in IssuedFor(event.conversation_id) )
       => ( /\ out.execs = 1
            /\ ResultTurnAppended(event.request_id)
            /\ out.ai_calls = 1
            /\ out.exc = "none" )

\* the tool name and parameters a reply carries after its tool marker
NamedTool(text) ==
    IF \E i \in 1..(Len(text) - 2) : text[i] = "<tool_use>"
    THEN LET i == CHOOSE k \in 1..(Len(text) - 2) : text[k] = "<tool_use>"
         IN  [tool_name |-> text[i + 1], tool_params |-> text[i + 2]]
    ELSE [tool_name |-> "None", tool_params |-> "None"]

\* C8: a tool request built from an AI reply carries the tool name and the
\* parameters that reply names; a reply whose tool payload cannot be
\* extracted is a plain text reply.
C8_RequestCarriesReply ==
    (out.ai_calls = 1 /\ ~event.ai.raises /\ Contains(event.ai.text, "<tool_use>"))
    => IF NamedTool(event.ai.text).tool_name = "None"
       THEN out.response.type = "text"
       ELSE /\ out.response.type = "tool_use_request"
            /\ out.response.tool_request.tool_name = NamedTool(event.ai.text).tool_name
            /\ out.response.tool_request.tool_params = NamedTool(event.ai.text).tool_params

\* C9: once a request was denied, an Approve of the same request does not
\* execute the tool.
C9_NoApproveAfterDeny ==
    [][ ( /\ event.kind = "deny"
          /\ out.updates = <<DeniedText>>
          /\ event'.kind = "approve"
          /\ event'.conversation_id = event.conversation_id
          /\ event'.request_id = event.request_id )
        => out'.execs = 0 ]_vars

\* C10: a mention whose AI call raises ends normally with exactly one
\* message posted to the chat surface.
C10_MentionSurvivesAIFailure ==
    (event.kind = "mention" /\ out.ai_calls = 1 /\ event.ai.raises)
    => (out.exc = "none" /\ Len(out.says) = 1)

\* C11: when the AI call raises inside send_message, send_tool_result or
\* notify_tool_denial, the instance's transcripts after the call are the
\* transcripts before it.
C11_FailedCallLeavesTranscript ==
    [][(event'.kind \in ClientCalls /\ out'.exc = "APIError") => claude' = claude]_vars

\* C12: the handling of an Approve or a Deny never ends with an exception
\* leaving the handler: every failure ends as a turn or as a message.
C12_DecisionNeverRaises ==
    Decision => out.exc = "none"

\* the tool call made while the last Approve was handled failed
ToolFailed == event.kind = "approve" /\ out.execs = 1 /\ ~event.tool_ok

ErrorTurnAppended(rid) ==
    \E id \in DOMAIN claude : \E k \in DOMAIN claude[id] :
        /\ claude[id][k] = Turn("system", "tool_result", rid, <<"error">>)

\* C13: when the tool call of an Approve fails, the error value comes back
\* from execute_tool, is appended as a system turn, the AI is invoked again
\* with it, and the handler does not fail.
C13_ToolFailureGoesToAI ==
    ToolFailed => ( /\ ErrorTurnAppended(event.request_id)
                    /\ out.ai_calls = 1
                    /\ out.exc = "none" )

Validated == mgr.op = "validate_mcp_config"

LacksName(server) == "name" \notin server.keys

LacksCommandAndModule(server) == server.keys \cap {"command", "module"} = {}

\* C14: validate_mcp_config answers False for a configuration without
\* "servers" and for one with an entry that lacks "name" or lacks both
\* "command" and "module", and True when every entry has "name" and at least
\* one of "command" and "module".
C14_ValidateConfig ==
    Validated =>
       /\ ~config.has_servers => mgr.ret = "False"
       /\ ( /\ config.has_servers
            /\ \E i \in DOMAIN config.servers :
                  LacksName(config.servers[i]) \/ LacksCommandAndModule(config.servers[i]) )
          => mgr.ret = "False"
       /\ ( /\ config.has_servers
            /\ \A i \in DOMAIN config.servers :
                  ~LacksName(config.servers[i]) /\ ~LacksCommandAndModule(config.servers[i]) )
          => mgr.ret = "True"

\* validation passed an entry that has only "name" and "module" and then
\* refused the configuration for its second entry, which has only "name"
C14_Witness ==
    /\ Validated
    /\ mgr.ret = "False"
    /\ config.has_servers
    /\ Len(config.servers) = 2
    /\ config.servers[1].keys = {"name", "module"}
    /\ config.servers[2].keys = {"name"}

Constructed == mgr.op = "__init__"

\* C15: a supervisor constructed from an invalid configuration fails with
\* an error and has launched no process: no state holds a process started
\* from an invalid configuration.
C15_InvalidConfigStartsNothing ==
    (mgr.state # "none" /\ ~validate_mcp_config(config))
       => ( /\ procs = <<>>
            /\ Constructed => mgr.exc # "none" )

\* the entries of the configuration that name a command to launch
CommandEntries == {i \in DOMAIN config.servers : "command" \in config.servers[i].keys}

\* C16: start-up from a configuration with servers does not fail because one
\* launch failed, and every server with a command is afterwards known to
\* get_server_status, started or failed.
C16_LaunchFailureIsolated ==
    (Constructed /\ config.servers # <<>>)
       => ( /\ mgr.exc = "none"
            /\ \A i \in CommandEntries, zombie_raises \in BOOLEAN :
                  status_record(server_processes, procs, NameOf(config.servers[i]),
                                zombie_raises).status # "unknown" )

LiveUnder(name) == {pid \in DOMAIN procs : procs[pid].name = name /\ Alive(procs[pid])}

\* C17: at most one live process launched by the supervisor under one name.
C17_OneLiveProcessPerName ==
    \A name \in ServerNames : Cardinality(LiveUnder(name)) <= 1

\* what C19 says of one restart_server call, from the state before it to the
\* state after it
RestartContract ==
    LET name == mgr'.name
    IN  IF name \notin DOMAIN server_processes
        THEN /\ mgr'.ret = "False"
             /\ procs' = procs
             /\ server_processes' = server_processes
        ELSE LET old == server_processes[name]
                 relaunched == Len(procs') = Len(procs) + 1
             IN  /\ mgr'.exc = "none"
                 /\ procs'[old].state # "running"
                 /\ relaunched => procs'[Len(procs')].cmd = procs[old].cmd
                 /\ mgr'.ret = "True" <=> (relaunched /\ Alive(procs'[Len(procs')]))
                 /\ mgr'.ret \in {"True", "False"}

\* C19: restart_server of an untracked name returns False and touches no
\* process; of a tracked name it terminates the old process, relaunches from
\* the command the server was configured with, returns True exactly when
\* the new process passes the liveness check, and returns False, without
\* raising, when the relaunch fails.
C19_RestartContract ==
    [][mgr'.op = "restart_server" => RestartContract]_vars

HasRestartCount(record) == "restart_count" \in DOMAIN record

HasRestartFailure(record) == "restart_error" \in DOMAIN record

\* C20: after restart_server of a tracked server, its status record carries
\* a restart count, and reports a running process or the failure of the
\* restart.
C20_RestartRecorded ==
    (mgr.op = "restart_server" /\ mgr.name \in DOMAIN server_processes)
       => \A zombie_raises \in BOOLEAN :
             LET record == status_record(server_processes, procs, mgr.name, zombie_raises)
             IN  /\ HasRestartCount(record)
                 /\ record.status = "running" \/ HasRestartFailure(record)

AllDone == \A t \in Threads : At(t, "done")

\* what a caller sees of a call, and of the table afterwards
CallResult(op, ret, exc) == [op |-> op, ret |-> ret, exc |-> exc]

Apply(op, sup, term_exits, kill_exits, outcome) ==
    IF op = "restart_server"
    THEN restart_server(sup, config, "s1", term_exits, outcome)
    ELSE stop_server(sup, "s1", term_exits, kill_exits)

ConcStart == Sup(MCPManager(ConcConfig, <<"runs">>).table,
                 MCPManager(ConcConfig, <<"runs">>).procs, "none", "none")

Runs(op, sup) ==
    { Apply(op, sup, term_exits, kill_exits, outcome) :
        term_exits \in BOOLEAN, kill_exits \in BOOLEAN, outcome \in LaunchOutcomes }

\* the two calls made one after the other, first then second: what each gave
\* its caller, and the names the table tracks at the end
SequentialResults(first, second) ==
    UNION { { [tracked |-> DOMAIN r2.table,
               results |-> {CallResult(first, r1.ret, r1.exc),
                            CallResult(second, r2.ret, r2.exc)}] :
                 r2 \in Runs(second, [r1 EXCEPT !.ret = "none", !.exc = "none"]) } :
            r1 \in Runs(first, ConcStart) }

ConcurrentResult ==
    [tracked |-> DOMAIN server_processes,
     results |-> {CallResult(threads[t].op, threads[t].ret, threads[t].exc) : t \in Threads}]

Tracked(pid) == \E name \in DOMAIN server_processes : server_processes[name] = pid

\* C18: when concurrent restart_server and stop_server calls for one server
\* have all returned, no call has raised KeyError for an entry removed under
\* it, no running process is left out of the table, and the results and the
\* table are those of the calls made in some order, one after the other.
C18_ConcurrentCallsSerializable ==
    AllDone =>
       /\ \A t \in Threads : threads[t].exc # "KeyError"
       /\ \A pid \in DOMAIN procs : procs[pid].state = "running" => Tracked(pid)
       /\ ConcurrentResult \in SequentialResults(threads["t1"].op, threads["t2"].op)
                               \cup SequentialResults(threads["t2"].op, threads["t1"].op)

\* what C21 says of one stop_server call, from the state before it to the
\* state after it
StopContract ==
    LET name == mgr'.name
    IN  IF name \notin DOMAIN server_processes
        THEN /\ mgr'.ret = "False"
             /\ mgr'.exc = "none"
             /\ server_processes' = server_processes
             /\ procs' = procs
        ELSE LET pid == server_processes[name]
             IN  /\ mgr'.exc = "none"
                 /\ procs'[pid].state # "running"
                 /\ \/ /\ mgr'.ret = "True"
                       /\ procs'[pid].state = "gone"
                       /\ server_processes' = Without(server_processes, name)
                    \/ /\ mgr'.ret = "False"
                       /\ procs'[pid].state = "killed"
                       /\ server_processes' = server_processes

\* C21: stop_server of an untracked name returns False and leaves the table
\* as it was; of a tracked name it terminates the process, by force if
\* needed, and returns True with the entry removed when the process is gone
\* (also when it had exited before), or False with the entry kept when the
\* process outlives the kill.
C21_StopContract ==
    [][mgr'.op = "stop_server" => StopContract]_vars

\* stop_server returned False for a tracked server that outlived the kill
C21_Witness ==
    /\ mgr.op = "stop_server"
    /\ mgr.ret = "False"
    /\ mgr.name \in DOMAIN server_processes
    /\ procs[server_processes[mgr.name]].state = "killed"

\* what C22 says of one get_server_status call
StatusContract ==
    LET name == mgr'.name
    IN  /\ mgr'.exc = "none"
        /\ server_processes' = server_processes
        /\ (name # "None" /\ name \notin DOMAIN server_processes)
              => ( /\ name \in DOMAIN mgr'.status
                   /\ mgr'.status[name].status = "unknown" )
        /\ name = "None" => DOMAIN mgr'.status = DOMAIN server_processes

\* C22: get_server_status(name) for a name the table does not hold returns
\* a mapping with an "unknown" record under that name; get_server_status()
\* returns one record per tracked server; the table is not modified.
C22_StatusContract ==
    [][mgr'.op = "get_server_status" => StatusContract]_vars

TornDown == mgr.op = "__del__"

\* C23: after teardown no process the table tracked is alive, and the
\* status of no tracked server says running.
C23_TeardownLeavesNothingAlive ==
    TornDown =>
       \A name \in DOMAIN server_processes :
          /\ ~Alive(procs[server_processes[name]])
          /\ \A zombie_raises \in BOOLEAN :
                ~status_record(server_processes, procs, name, zombie_raises).running

Exited(pid) == procs[pid].state \in {"zombie", "gone"}

\* C24: get_server_status returns normally and reports as not running every
\* tracked server whose process has exited, zombie or gone; the liveness
\* check answers True only for a process that exists and is not a zombie.
C24_ExitedReportedNotRunning ==
    /\ mgr.op = "get_server_status"
          => /\ mgr.exc = "none"
             /\ \A name \in DOMAIN mgr.status \cap DOMAIN server_processes :
                   Exited(server_processes[name]) => ~mgr.status[name].running
    /\ \A pid \in DOMAIN procs : _is_process_running(procs, pid) => ~Exited(pid)

\* the supervisor launched servers and none of their processes is running
NoProviderRunning == procs # <<>> /\ \A pid \in DOMAIN procs : ~Alive(procs[pid])

\* C25: execute_tool called while the provider process is not running
\* returns an error result and does not forward the call to the provider
\* connection.
C25_ExecuteFailsFast ==
    [][(mgr'.op = "execute_tool" /\ NoProviderRunning)
          => (mgr'.ret = "error" /\ execLog' = execLog)]_vars

\* the handler of the last event created a conversation with no tool in it
CreatedWithEmptyCatalog ==
    \E id \in DOMAIN claude : claude[id][1] = Turn("system", "prompt", 0, <<>>)

\* C26: when listing the tools fails, get_available_tools returns the empty
\* list, and the handling of the mention creates the conversation with an
\* empty catalog and invokes the AI.
C26_MentionSurvivesListingFailure ==
    (event.kind = "mention" /\ ~event.listing_ok)
       => ( /\ get_available_tools(event.listing_ok, ListedTools) = <<>>
            /\ CreatedWithEmptyCatalog
            /\ out.ai_calls = 1 )

\* the histories ClientAddContext supplies, as add_context receives them
SuppliedHistories == {format_messages_for_claude(m) : m \in {<<>>, <<UserMsg>>}}

\* C27: a call of add_context that returns leaves the transcript as the
\* original system turn followed by exactly the supplied messages, and
\* returns a value that send_message accepts as the conversation.
C27_AddContextReturnsConversation ==
    [][(event'.kind = "add_context" /\ out'.exc = "none")
          => \E messages \in SuppliedHistories :
                LET id == event'.conversation_id
                    r == add_context(claude, uuid, IdRef(id), messages)
                IN  /\ claude' = r.convs
                    /\ claude'[id][1] = claude[id][1]
                    /\ SubSeq(claude'[id], 2, Len(claude'[id])) = messages
                    /\ Lookup(claude', r.value) = "none"]_vars

FinalAnswerMarkers == {"<final_answer>", "</final_answer>"}

\* send_message or send_tool_result returned a response for the AI's reply
Classified == event.kind \in {"send_message", "send_tool_result"} /\ out.exc = "none"

\* C28: send_message and send_tool_result give every AI reply one response
\* type: tool_use_request with a tool request when the reply has the
\* tool-use marker; otherwise final_answer, the markers removed from the
\* content and no tool request, when it has the final-answer marker;
\* otherwise text, the content unchanged and no tool request.
C28_ReplyClassified ==
    Classified =>
       LET reply == event.ai.text
           response == out.response
       IN  IF Contains(reply, "<tool_use>")
           THEN /\ response.type = "tool_use_request"
                /\ response.tool_request # NoneRequest
           ELSE IF Contains(reply, "<final_answer>")
           THEN /\ response.type = "final_answer"
                /\ response.content = SelectSeq(reply, LAMBDA t : t \notin FinalAnswerMarkers)
                /\ response.tool_request = NoneRequest
           ELSE /\ response.type = "text"
                /\ response.content = reply
                /\ response.tool_request = NoneRequest

\* send_tool_result answered a reply that has only the final-answer markers
C28_Witness ==
    /\ Classified
    /\ event.kind = "send_tool_result"
    /\ event.ai.text = <<"<final_answer>", "done", "</final_answer>">>
    /\ out.response = ClaudeResponse("final_answer", <<"done">>, NoneRequest)

\* two handlers that ran concurrently have ended; both decisions named the
\* parked conversation, and one of them at least was an Approve
BothDecided ==
    /\ \A t \in Threads : /\ threads[t].pc = "done"
                           /\ threads[t].overlapped
                           /\ threads[t].conversation_id = ParkedId
    /\ \E t \in Threads : threads[t].kind = "approve"

\* the decision of thread t was accepted: its handler went past the lookup
TookEffect(t) == threads[t].updates \in {<<ApprovedText>>, <<DeniedText>>}

\* the stored transcript holds the turn the decision of thread t adds
TurnStored(t) ==
    LET stored == StoreGet(conversation_store, ParkedId)
    IN  \E i \in DOMAIN stored.turns :
           /\ stored.turns[i].rid = threads[t].request_id
           /\ stored.turns[i].kind =
                  (IF threads[t].kind = "approve" THEN "tool_result" ELSE "denied")

\* C29: of two decisions for the same parked conversation handled
\* concurrently, exactly one resolves the pending request, execute_tool
\* runs at most once, and the stored transcript holds the turns of every
\* decision that took effect.
C29_ConcurrentDecisionsSerialized ==
    BothDecided =>
       /\ Cardinality({t \in Threads : TookEffect(t)}) = 1
       /\ Len(execLog) <= 1
       /\ \A t \in Threads : TookEffect(t) => TurnStored(t)

\* the mention handled last got a text reply or a final answer from the AI
TurnEnded ==
    /\ event.kind = "mention"
    /\ out.response.type \in {"text", "final_answer"}

\* transcript `turns` holds the sequence `earlier` and, right after it, `turn`
FollowedBy(turns, earlier, turn) ==
    \E k \in DOMAIN turns :
       /\ k + Len(earlier) \in DOMAIN turns
       /\ SubSeq(turns, k, k + Len(earlier) - 1) = earlier
       /\ turns[k + Len(earlier)] = turn

\* C30: after a turn that ended with a text reply or a final answer, the
\* next message in the thread is processed against the same conversation:
\* the AI is invoked with a transcript that holds the turns of the earlier
\* message followed by the new human turn.
C30_NextMessageContinuesConversation ==
    [][(TurnEnded /\ event'.kind = "mention" /\ event'.has_thread_ts)
          => /\ out'.ai_calls = 1
             /\ \E old \in DOMAIN claude, new \in DOMAIN claude' :
                   FollowedBy(claude'[new],
                              SubSeq(claude[old], 2, Len(claude[old])),
                              Turn("human", "message", 0, user_message_of(event'.text)))]_vars

\* transcript `turns` starts with the turns `parked` and goes on with the
\* system turn a decision of the given kind on request rid adds
ResumedFrom(turns, parked, kind, rid) ==
    /\ Len(turns) > Len(parked)
    /\ SubSeq(turns, 1, Len(parked)) = parked
    /\ turns[Len(parked) + 1].role = "system"
    /\ turns[Len(parked) + 1].rid = rid
    /\ turns[Len(parked) + 1].kind = (IF kind = "approve" THEN "tool_result" ELSE "denied")

\* C31: a decision that names a stored conversation finds it in the AI
\* client too: the lookup there raises nothing, and the AI is invoked once
\* with a transcript that starts with every turn held at parking time and
\* goes on with the tool-result or denial system turn.
C31_ResumeFindsConversation ==
    [][(event'.kind \in {"approve", "deny"}
           /\ event'.conversation_id \in DOMAIN conversation_store)
          => /\ out'.exc \notin {"ValueError", "TypeError"}
             /\ out'.ai_calls = 1
             /\ \E id \in DOMAIN claude' :
                   ResumedFrom(claude'[id],
                               conversation_store[event'.conversation_id].turns,
                               event'.kind, event'.request_id)]_vars

\* request ids for which an approval message was shown
ShownRequests == {i.request_id : i \in issued}

\* C32: the tool call made on approval is the one shown: every call
\* forwarded for a request that was shown in an approval message carries
\* the tool name and the parameters of the tool request shown for it.
C32_ExecutedIsWhatWasShown ==
    \A i \in DOMAIN execLog :
       (execLog[i].handler = "approve" /\ execLog[i].rid \in ShownRequests)
          => /\ execLog[i].tool_name = tool_request(execLog[i].rid).tool_name
             /\ execLog[i].tool_params = tool_request(execLog[i].rid).tool_params

\* the i-th click was on `button`
Clicked(i, button) == i \in DOMAIN threads /\ threads[i].button = button

\* the i-th click ran `listener`
RanListener(i, listener) == i \in DOMAIN threads /\ threads[i].ran = listener

\* C33: the action ids the buttons of an approval message carry are the
\* ids the handlers are registered under, so every click on Approve
\* eventually runs handle_tool_approval and every click on Deny eventually
\* runs handle_tool_denial.
C33_ClicksReachHandlers ==
    \A i \in 1..MaxClicks :
       /\ Clicked(i, "approve") ~> RanListener(i, "handle_tool_approval")
       /\ Clicked(i, "deny") ~> RanListener(i, "handle_tool_denial")

\* C34: every approval request emitted carries, on both buttons, the pair
\* of the id under which the conversation is stored and the id of the tool
\* request the AI client returned.
C34_ApprovalRequestNamesStored ==
    \A i \in DOMAIN out.posts :
       LET value == out.posts[i].approve_value
       IN  /\ value.conversation_id \in DOMAIN conversation_store
           /\ conversation_store[value.conversation_id] = out.response.conversation
           /\ value.request_id = out.response.tool_request.id
           /\ out.posts[i].deny_value = value

\* the reply handed to an Approve asked for another tool, and the request
\* for it was emitted
C34_Witness ==
    /\ event.kind = "approve"
    /\ out.exc = "none"
    /\ out.response.type = "tool_use_request"
    /\ Len(out.posts) = 1

IsPrefix(old, new) == Len(old) <= Len(new) /\ SubSeq(new, 1, Len(old)) = old

\* C35: a send_message, send_tool_result or notify_tool_denial that returns
\* appends exactly two turns to its conversation, the new human or system
\* turn and then the assistant reply, and leaves every earlier turn of every
\* conversation as it was; no call other than add_context removes or
\* changes a turn.
C35_TranscriptAppendOnly ==
    [][ /\ (event'.kind \in ClientCalls /\ out'.exc = "none")
           => LET id == event'.conversation_id
                  n == Len(claude[id])
              IN  /\ DOMAIN claude' = DOMAIN claude
                  /\ Len(claude'[id]) = n + 2
                  /\ IsPrefix(claude[id], claude'[id])
                  /\ claude'[id][n + 1].role =
                        (IF event'.kind = "send_message" THEN "human" ELSE "system")
                  /\ claude'[id][n + 2] = Turn("assistant", "reply", 0, event'.ai.text)
                  /\ \A other \in DOMAIN claude \ {id} : claude'[other] = claude[other]
        /\ event'.kind # "add_context"
           => \A id \in DOMAIN claude :
                 id \in DOMAIN claude' /\ IsPrefix(claude[id], claude'[id]) ]_vars

\* send_message returned on a conversation that held imported history
C35_Witness ==
    /\ event.kind = "send_message"
    /\ out.exc = "none"
    /\ Len(claude[event.conversation_id]) = 4
    /\ claude[event.conversation_id][2] = Turn("human", "message", 0, <<"earlier">>)
    /\ claude[event.conversation_id][3] = Turn("human", "message", 0, <<"hi">>)

\* an inbound event was handled and the AI answered while it was
AIReplied ==
    /\ event.kind \in {"mention", "approve", "deny"}
    /\ out.ai_calls > 0
    /\ ~event.ai.raises

\* C36: the handling of one inbound event invokes the AI at most once and,
\* when the AI answered, ends with exactly one outbound result: one posted
\* reply, or one approval request with the conversation stored; a reply
\* asking for a tool leads to no execute_tool call within the same event.
C36_OneResultPerEvent ==
    /\ out.ai_calls <= 1
    /\ AIReplied
       => /\ out.exc = "none"
          /\ Len(out.says) + Len(out.posts) = 1
          /\ Len(out.posts) = 1
                => out.posts[1].approve_value.conversation_id \in DOMAIN conversation_store
          /\ (event.kind = "mention" /\ out.response.type = "tool_use_request")
                => out.execs = 0

\* C37: restart_server(name) and stop_server(name), however they end, leave
\* the table entry of every other server name as it was; the set of tracked
\* names changes only when stop_server returns True, and then loses exactly
\* that name.
C37_OtherServersUntouched ==
    [][mgr'.op \in {"restart_server", "stop_server"}
          => /\ \A other \in DOMAIN server_processes \ {mgr'.name} :
                   /\ other \in DOMAIN server_processes'
                   /\ server_processes'[other] = server_processes[other]
             /\ DOMAIN server_processes' # DOMAIN server_processes
                   => /\ mgr'.op = "stop_server"
                      /\ mgr'.ret = "True"
                      /\ DOMAIN server_processes' = DOMAIN server_processes \ {mgr'.name}]_vars

\* s1 was stopped and removed while s2 stayed tracked
C37_Witness ==
    /\ mgr.op = "stop_server"
    /\ mgr.name = "s1"
    /\ mgr.ret = "True"
    /\ DOMAIN server_processes = {"s2"}

\* C38: a reply posted while an Approve or a Deny is handled is posted with
\* a thread timestamp, into the thread of the approval message, and never
\* as a top-level message.
C38_DecisionReplyInThread ==
    Decision => \A i \in DOMAIN out.says : out.says[i].threaded

\* the Deny handled last named a stored conversation and was acknowledged
DenyAccepted == event.kind = "deny" /\ out.updates = <<DeniedText>>

\* C39: a Deny of a stored conversation gets a response of type text from
\* notify_tool_denial and ends with one posted reply and no new approval
\* request.
C39_DenyEndsWithReply ==
    DenyAccepted => ( /\ out.response.type = "text"
                      /\ Len(out.says) = 1
                      /\ out.posts = <<>> )

\* C40: add_context, send_message, send_tool_result and notify_tool_denial
\* called with a conversation id the instance does not hold raise
\* ValueError and have no effect: the instance's conversations stay as they
\* were, no id is minted and the AI API is not called.
C40_UnknownIdRaisesFirst ==
    [][(event'.kind \in ClientCalls \cup {"add_context"}
           /\ event'.conversation_id \notin DOMAIN claude)
          => /\ out'.exc = "ValueError"
             /\ claude' = claude
             /\ uuid' = uuid
             /\ out'.ai_calls = 0]_vars

\* send_tool_result was refused for an id the instance does not hold, while
\* it held another conversation
C40_Witness ==
    /\ event.kind = "send_tool_result"
    /\ out.exc = "ValueError"
    /\ DOMAIN claude # {}
    /\ event.conversation_id \notin DOMAIN claude \cup {0}

====
